---- MODULE Spec2Model ----
(***************************************************************************)
(* A model of ff4d.py: the Dropbox FUSE operations class (class Dropbox).  *)
(*                                                                         *)
(* State: the metadata cache (self.cache), the file-handle table           *)
(* (self.openfh, self.runfh), the remote store as the code observes it     *)
(* through its dbx... wrappers, and the caller's side of each operation    *)
(* (the value an operation returned, the file descriptors the kernel       *)
(* holds).                                                                 *)
(*                                                                         *)
(* Bytes are modelled by position: a buffer is a sequence of pieces        *)
(* <<offset, length>>, one per write call, and a read returns the interval *)
(* of the file it delivers.  Byte strings and text strings are one type    *)
(* ('' is the empty buffer), as the source writes them.                    *)
(***************************************************************************)
EXTENDS Integers, Sequences, FiniteSets, TLC

\* ------------------------------------------------------------------ bounds
\* range(1,8193) in getFH, scaled down: the ids are 1..MaxFH
MaxFH == 2
\* remote upload sessions and download streams the model opens at most
MaxSessions == 2
MaxStreams == 3
\* write calls the model makes per handle at most
MaxWrites == 2
\* descriptors open at a time where downloads are explored
MaxReaders == 1
\* the clock runs 0..MaxTime
MaxTime == 2
\* read offsets are 0..MaxOff
MaxOff == 4

\* ------------------------------------------------------- program constants
\* cache_time = 120 (seconds), scaled to clock ticks
cache_time == 1
\* write_cache = 4194304 (bytes)
write_cache == 4194304
\* the literal 4096 of write()
MinChunk == 4096
\* size of the file the remote store holds at the start
InitSize == 4

\* --------------------------------------------------------------- the paths
Paths == {"/", "/a", "/a/f", "/a/g", "/b"}

\* the order in which the remote store lists entries
PathOrder == <<"/", "/a", "/a/f", "/a/g", "/b">>

\* os.path.dirname
Dirname(p) ==
  CASE p = "/" -> "/"
    [] p = "/a" -> "/"
    [] p = "/b" -> "/"
    [] p = "/a/f" -> "/a"
    [] p = "/a/g" -> "/a"

\* --------------------------------------------------------------- sequences
RECURSIVE SumLen(_)
\* len() of a buffer made of pieces <<offset, length>>
SumLen(s) == IF s = <<>> THEN 0 ELSE Head(s)[2] + SumLen(Tail(s))

RECURSIVE SelectPaths(_, _)
\* the subsequence of a sequence of paths whose elements are in S
SelectPaths(s, S) ==
  IF s = <<>> THEN <<>>
  ELSE IF Head(s) \in S THEN <<Head(s)>> \o SelectPaths(Tail(s), S)
       ELSE SelectPaths(Tail(s), S)

Range(s) == {s[i] : i \in 1..Len(s)}

\* ------------------------------------------------------------- cache items
\* 'cachets' not in item
NoTs == -1

\* A cached metadata dict.  tag is the '.tag' key ("none": the key is absent,
\* as in a list-folder result); hasEntries is 'entries' in item; hasContents
\* is 'contents' in item.
FileItem(size, ts) ==
  [tag |-> "file", hasEntries |-> FALSE, entries |-> <<>>,
   hasContents |-> FALSE, size |-> size, cachets |-> ts]

FolderItem(ts) ==
  [tag |-> "folder", hasEntries |-> FALSE, entries |-> <<>>,
   hasContents |-> FALSE, size |-> 0, cachets |-> ts]

ListItem(entries, ts) ==
  [tag |-> "none", hasEntries |-> TRUE, entries |-> entries,
   hasContents |-> FALSE, size |-> 0, cachets |-> ts]

\* a dict without the keys of m that are in K
Without(m, K) == [k \in (DOMAIN m) \ K |-> m[k]]

\* m with m[k] = v
With(m, k, v) == [x \in (DOMAIN m) \cup {k} |-> IF x = k THEN v ELSE m[x]]

\* what a function returns when it returns False
False == [tag |-> "False", hasEntries |-> FALSE, entries |-> <<>>,
          hasContents |-> FALSE, size |-> 0, cachets |-> NoTs]

\* ------------------------------------------------------------ remote store
\* What the remote store holds at a path: nothing, a folder, or a file with
\* its data.
NoObject == [kind |-> "none", data |-> <<>>]
FolderObject == [kind |-> "folder", data |-> <<>>]
FileObject(data) == [kind |-> "file", data |-> data]

RemoteInit ==
  [p \in Paths |->
     CASE p \in {"/", "/a"} -> FolderObject
       [] p = "/a/f" -> FileObject(<< <<0, InitSize>> >>)
       [] OTHER -> NoObject]

\* Children cut after the first entry: a listing of which only the first part
\* is taken
ChildrenFirst(rem, p) ==
  LET all == SelectPaths(PathOrder,
                         {q \in Paths : q # p /\ Dirname(q) = p /\ rem[q].kind # "none"})
  IN IF all = <<>> THEN all ELSE <<Head(all)>>

\* the entries a folder listing of p carries, in the remote store's order
Children(rem, p) ==
  SelectPaths(PathOrder,
              {q \in Paths : q # p /\ Dirname(q) = p /\ rem[q].kind # "none"})

\* the metadata dict of one entry of a listing
EntryOf(rem, q) ==
  IF rem[q].kind = "folder" THEN FolderItem(NoTs)
  ELSE FileItem(SumLen(rem[q].data), NoTs)

\* dbxMetadata(path): files_list_folder answers for a folder; every
\* exception (path absent, path not a folder, network error: ok = FALSE) is
\* caught and False returned.
dbxMetadata(rem, path, ok) ==
  IF ok /\ rem[path].kind = "folder"
    THEN ListItem(Children(rem, path), NoTs)
    ELSE False

\* removeFromCache without the test that the path is cached: the listing of
\* the folder is evicted even for an absent path
removeFromCacheAbsent(c, path) ==
  LET cur_path == Dirname(path)
  IN IF cur_path \in DOMAIN c /\ c[cur_path].hasEntries
       THEN Without(c, {cur_path, path})
       ELSE Without(c, {path})

\* removeFromCache that also removes what is cached beside the path, in the
\* same folder
removeFromCacheFamily(c, path) ==
  Without(c, {q \in DOMAIN c : q = path \/ q = Dirname(path)
                                \/ Dirname(q) = Dirname(path)})

\* removeFromCache that empties the whole cache
removeFromCacheAll(c, path) == Without(c, DOMAIN c)

\* removeFromCache that finds the path and removes nothing
removeFromCacheKeep(c, path) == c

\* ------------------------------------------------------------------- cache
\* removeFromCache(path): the cache afterwards
removeFromCache(c, path) ==
  IF path \in DOMAIN c
    THEN LET item == c[path]
             c1 == IF item.hasEntries /\ item.hasContents
                     THEN Without(c, Range(item.entries))
                     ELSE LET cur_path == Dirname(path)
                          IN IF cur_path \in DOMAIN c /\ c[cur_path].hasEntries
                               THEN Without(c, {cur_path})
                               ELSE c
         IN Without(c1, {path})
    ELSE c

\* removeFromCache(path): the value returned
removeFromCacheRet(c, path) == path \in DOMAIN c

RECURSIVE CacheEntries(_, _, _, _)
\* for tmp in item['entries']: self.cache[tmp['path']] = tmp, each entry
\* stamped with ts (NoTs: not stamped)
CacheEntries(c, rem, entries, ts) ==
  IF entries = <<>> THEN c
  ELSE LET q == Head(entries)
           tmp == [EntryOf(rem, q) EXCEPT !.cachets = ts]
       IN CacheEntries(With(c, q, tmp), rem, Tail(entries), ts)

\* the test a cached item goes through: 'entries' in item and
\* item['cachets'] < int(time()) or (deep and 'contents' not in item); the
\* remote store is asked when it holds
AsksRemote(item, deep, t) ==
  (item.hasEntries /\ item.cachets < t) \/ (deep /\ ~item.hasContents)

\* getDropboxMetadata(path, deep) at time t, the remote call (if one is
\* made) answering iff ok: the cache afterwards and the item returned
getDropboxMetadata(c, rem, path, deep, ok, t) ==
  IF path \in DOMAIN c
    THEN LET item == c[path]
         IN IF AsksRemote(item, deep, t)
              THEN LET fresh == dbxMetadata(rem, path, ok)
                   IN IF fresh = False
                        \* item.get raises on False; the except clause logs and
                        \* the rebound item (False) is returned
                        THEN [cache |-> c, item |-> False]
                        ELSE LET cachets == t + cache_time
                                 stamped == [fresh EXCEPT !.cachets = cachets]
                                 c1 == With(removeFromCache(c, path), path, stamped)
                             IN [cache |-> CacheEntries(c1, rem, fresh.entries, cachets),
                                 item |-> stamped]
              ELSE [cache |-> c, item |-> item]
    ELSE IF Dirname(path) \in DOMAIN c /\ c[Dirname(path)].hasContents
           THEN [cache |-> c, item |-> False]
           ELSE LET fresh == dbxMetadata(rem, path, ok)
                IN IF fresh = False
                     THEN [cache |-> c, item |-> False]
                     ELSE LET cachets == t + cache_time
                              stamped == [fresh EXCEPT !.cachets = cachets]
                          IN [cache |-> CacheEntries(With(c, path, stamped), rem,
                                                     fresh.entries, NoTs),
                              item |-> stamped]

\* ------------------------------------------------------------ handle table
\* upload_id == "": no upload session yet
EmptyId == 0

\* openfh[fh]['f']: False, a download stream (identity sid, position pos in
\* a file of size bytes), or the upload dict {'upload_id', 'offset', 'buf'}
NoF == [kind |-> "none", sid |-> 0, pos |-> 0, size |-> 0,
        upload_id |-> EmptyId, offset |-> 0, buf |-> <<>>]

StreamF(sid, pos, size) == [NoF EXCEPT !.kind = "stream", !.sid = sid,
                                       !.pos = pos, !.size = size]

UploadF(upload_id, offset, buf) == [NoF EXCEPT !.kind = "upload",
                                               !.upload_id = upload_id,
                                               !.offset = offset, !.buf = buf]

\* the dict getFH stores for a new handle
NewHandle(mode) == [mode |-> mode, f |-> NoF, lock |-> FALSE, eoffset |-> 0]

RECURSIVE ScanFH(_, _)
\* for i in range(1,8193): if i not in self.openfh: ... return i
\* return False (0)
ScanFH(o, i) ==
  IF i > MaxFH THEN 0
  ELSE IF i \notin DOMAIN o THEN i ELSE ScanFH(o, i + 1)

\* getFH with the scan started one id too far
getFHSkipFirst(o) == ScanFH(o, 2)

\* getFH(mode): the id returned (0: False)
getFH(o) == ScanFH(o, 1)

\* the files handles are opened on
FilePaths == {"/a/f", "/a/g"}

\* the lengths of the buffers write() is called with
WriteLens == {10, MinChunk, write_cache}

\* the lengths read() is called with
ReadLens == {2, 3}

VARIABLES
  cache,     \* self.cache: path -> item
  openfh,    \* self.openfh: fh -> handle dict
  runfh,     \* self.runfh: fh -> flag
  remote,    \* the remote store: path -> object
  sessions,  \* the remote store's upload sessions: session id -> data received
  streams,   \* how many download streams were opened
  now,       \* int(time())
  result,    \* what the last operation returned to its caller
  fds,       \* the descriptors callers hold: <<[fh, path], ...>>
  accepted,  \* fh -> the pieces write() calls on fh returned success for
  tpc,       \* request thread -> its position in open()/create()
  tloc       \* request thread -> its local variables

vars == <<cache, openfh, runfh, remote, sessions, streams, now, result, fds,
          accepted, tpc, tloc>>

Threads == {1, 2}

\* what an operation returned: err is "" or the error raised
Ret(op, path, fh, err, val) ==
  [op |-> op, path |-> path, fh |-> fh, err |-> err, val |-> val]

Init ==
  /\ cache = << >>
  /\ openfh = << >>
  /\ runfh = << >>
  /\ remote = RemoteInit
  /\ sessions = << >>
  /\ streams = 0
  /\ now = 0
  /\ result = Ret("init", "/", 0, "", 0)
  /\ fds = << >>
  /\ accepted = << >>
  /\ tpc = [t \in Threads |-> "idle"]
  /\ tloc = [t \in Threads |-> [i |-> 0, mode |-> "r", path |-> "/"]]

\* the sequence s without its k-th element
RemoveAt(s, k) == SubSeq(s, 1, k - 1) \o SubSeq(s, k + 1, Len(s))

\* -------------------------------------------------------------- open/create
\* open(path, flags): append is flags & os.O_APPEND
Open(path, append) ==
  /\ IF append
       THEN /\ result' = Ret("open", path, 0, "EOPNOTSUPP", 0)
            /\ UNCHANGED <<openfh, runfh, fds, accepted>>
       ELSE LET fh == getFH(openfh)
            IN /\ result' = Ret("open", path, fh, "", fh)
               /\ IF fh # 0
                    THEN /\ openfh' = With(openfh, fh, NewHandle("r"))
                         /\ runfh' = With(runfh, fh, FALSE)
                         /\ fds' = Append(fds, [fh |-> fh, path |-> path])
                         /\ accepted' = With(accepted, fh, << >>)
                    ELSE UNCHANGED <<openfh, runfh, fds, accepted>>
  /\ UNCHANGED <<cache, remote, sessions, streams, now, tpc, tloc>>

\* create(path, mode)
Create(path) ==
  /\ LET fh == getFH(openfh)
     IN /\ result' = Ret("create", path, fh, "", fh)
        /\ cache' = With(cache, path, FileItem(0, NoTs))
        /\ IF fh # 0
             THEN /\ openfh' = With(openfh, fh, NewHandle("w"))
                  /\ runfh' = With(runfh, fh, FALSE)
                  /\ fds' = Append(fds, [fh |-> fh, path |-> path])
                  /\ accepted' = With(accepted, fh, << >>)
             ELSE UNCHANGED <<openfh, runfh, fds, accepted>>
  /\ UNCHANGED <<remote, sessions, streams, now, tpc, tloc>>

\* -------------------------------------------------------------------- write
\* dbxChunkedUpload(data, upload_id, offset) when the remote call succeeds:
\* the remote sessions afterwards and the result dict
dbxChunkedUpload(sess, data, upload_id, offset) ==
  IF upload_id = EmptyId
    THEN [sessions |-> Append(sess, data),
          upload_id |-> Len(sess) + 1,
          offset |-> offset + SumLen(data)]
    ELSE [sessions |-> [sess EXCEPT ![upload_id] = @ \o data],
          upload_id |-> upload_id,
          offset |-> offset + SumLen(data)]

\* MustUpload without the test for a short buffer
MustUploadNoSmall(buffered, n) == n + buffered >= write_cache

\* MustUpload without the test against write_cache
MustUploadSmallOnly(buffered, n) == n < MinChunk

\* len(buf) >= write_cache or len(buf) < 4096, buffered bytes included
MustUpload(buffered, n) == n + buffered >= write_cache \/ n < MinChunk

\* a handle's f after a write whose upload call raised, with the buffer
\* already extended by the bytes of the call
AfterFailedUploadKept(f, piece) == UploadF(f.upload_id, f.offset, f.buf \o <<piece>>)

\* a handle's f after a write whose upload call raised: openfh[fh]['f'] is
\* assigned only after dbxChunkedUpload returns, so it is what it was
AfterFailedUpload(f, piece) == f

\* write(path, buf, offset, fh) with len(buf) = n on the k-th descriptor;
\* the remote call, if one is made, succeeds iff ok
Write(k, n, offset, ok) ==
  LET fh == fds[k].fh
      path == fds[k].path
      h == openfh[fh]
      f == h.f
      piece == <<offset, n>>
      eio == /\ result' = Ret("write", path, fh, "EIO", 0)
             /\ openfh' = [openfh EXCEPT ![fh].f = AfterFailedUpload(f, piece)]
             /\ UNCHANGED <<sessions, accepted>>
      done(newf, newsess) ==
             /\ openfh' = [openfh EXCEPT ![fh].f = newf]
             /\ sessions' = newsess
             /\ accepted' = [accepted EXCEPT ![fh] = Append(@, piece)]
             /\ result' = Ret("write", path, fh, "", n)
  IN /\ fh \in DOMAIN openfh
     /\ Len(accepted[fh]) < MaxWrites
     /\ CASE f.kind = "none" ->
               IF MustUpload(0, n)
                 THEN /\ Len(sessions) < MaxSessions
                      /\ IF ok
                           THEN LET r == dbxChunkedUpload(sessions, <<piece>>, EmptyId, 0)
                                IN done(UploadF(r.upload_id, r.offset, << >>), r.sessions)
                           ELSE eio
                 ELSE /\ ok
                      /\ done(UploadF(EmptyId, 0, <<piece>>), sessions)
          [] f.kind = "upload" ->
               IF MustUpload(SumLen(f.buf), n)
                 THEN /\ f.upload_id = EmptyId => Len(sessions) < MaxSessions
                      /\ IF ok
                           THEN LET r == dbxChunkedUpload(sessions, f.buf \o <<piece>>,
                                                          f.upload_id, f.offset)
                                IN done(UploadF(r.upload_id, r.offset, << >>), r.sessions)
                           ELSE eio
                 ELSE /\ ok
                      /\ done([f EXCEPT !.buf = f.buf \o <<piece>>], sessions)
          [] OTHER ->
               \* f is a download stream: f['buf'] raises, caught
               /\ ok
               /\ eio
     /\ UNCHANGED <<cache, runfh, remote, streams, now, fds, tpc, tloc>>

\* --------------------------------------------------------------------- read
\* dbxFilehandle(path, seek): files_download(path)[1].raw, a stream over the
\* file's bytes; sid is the identity of the new stream
dbxFilehandle(rem, path, seek, sid) == StreamF(sid, 0, SumLen(rem[path].data))

\* files_download succeeds
CanDownload(rem, path, ok) == ok /\ rem[path].kind = "file"

\* stream.read(length): how many bytes it delivers
StreamRead(f, length) ==
  IF f.size - f.pos < length THEN f.size - f.pos ELSE length

\* NeedOpen without the comparison of the offsets: a stream, once open, is
\* kept whatever offset is asked for
NeedOpenOnce(h, offset) == h.f.kind = "none"

\* read() opens a stream: there is none yet (not f), or the requested offset
\* is not the expected one (eoffset != offset)
NeedOpen(h, offset) == h.f.kind = "none" \/ h.eoffset # offset

\* the expected offset read() stores: offset + len(rbytes)
NextOffset(offset, n) == offset + n

\* read(path, length, offset, fh) on the k-th descriptor; opening the stream
\* succeeds iff okOpen, reading from it iff okRead
Read(k, length, offset, okOpen, okRead) ==
  LET fh == fds[k].fh
      path == fds[k].path
      h == openfh[fh]
      f == h.f
      needOpen == NeedOpen(h, offset)
      opened == needOpen /\ CanDownload(remote, path, okOpen)
      f1 == IF opened THEN dbxFilehandle(remote, path, offset, streams + 1) ELSE f
      n == StreamRead(f1, length)
      rbytes == [i \in 1..n |-> f1.pos + i - 1]
  IN /\ fh \in DOMAIN openfh
     /\ needOpen => streams < MaxStreams
     /\ ~needOpen => okOpen
     /\ runfh' = [runfh EXCEPT ![fh] = (needOpen /\ ~opened) \/ f1.kind # "stream" \/ ~okRead]
     /\ streams' = IF opened THEN streams + 1 ELSE streams
     /\ IF needOpen /\ ~opened
          THEN /\ okRead
               /\ result' = Ret("read", path, fh, IF f.kind = "none" THEN "EIO" ELSE "EXC", << >>)
               /\ UNCHANGED openfh
          ELSE IF f1.kind # "stream"
            \* f is the upload dict: f.read raises, caught
            THEN /\ okRead
                 /\ result' = Ret("read", path, fh, "EIO", << >>)
                 /\ UNCHANGED openfh
            ELSE IF ~okRead
              THEN /\ result' = Ret("read", path, fh, "EIO", << >>)
                   /\ openfh' = [openfh EXCEPT ![fh].f = f1]
              ELSE /\ result' = Ret("read", path, fh, "",
                                    [rbytes |-> rbytes, offset |-> offset,
                                     length |-> length])
                   /\ openfh' = [openfh EXCEPT ![fh].f = [f1 EXCEPT !.pos = f1.pos + n],
                                               ![fh].lock = FALSE,
                                               ![fh].eoffset = NextOffset(offset, n)]
     /\ UNCHANGED <<cache, remote, sessions, now, fds, accepted, tpc, tloc>>

\* ------------------------------------------------------------------ release
\* releaseFH(fh)
releaseFH(tbl, fh) == Without(tbl, {fh})

\* dbxCommitChunkedUpload(path, upload_id, offset) when the remote call
\* succeeds: the remote store afterwards (the session's data becomes the
\* file at path)
dbxCommitChunkedUpload(rem, sess, path, upload_id, offset) ==
  [rem EXCEPT ![path] = FileObject(sess[upload_id])]

\* the upload test of release(): type(f) is dict and 'upload_id' in f and
\* f['upload_id'] != ""
HasSession(f) == f.kind = "upload" /\ f.upload_id # EmptyId

\* the cursor offset release() passes to dbxCommitChunkedUpload
CommitOffset(f) == f.offset

\* what release() reports: the handle's f and the accepted pieces before
\* the call, whether the flush call was made and succeeded, whether the
\* commit call was issued and with which cursor offset, whether it succeeded
ReleaseVal(f, acc, flushed, issued, committed) ==
  [before |-> f, accepted |-> acc, flushed |-> flushed,
   commitIssued |-> issued, commitOffset |-> CommitOffset(f),
   committed |-> committed]

\* release(path, fh) on the k-th descriptor; the flush succeeds iff okFlush,
\* the commit iff okCommit.  An exception leaves release() where it is
\* raised.  The kernel drops the descriptor whatever release() returns.
Release(k, okFlush, okCommit) ==
  LET fh == fds[k].fh
      path == fds[k].path
  IN /\ fds' = RemoveAt(fds, k)
     /\ UNCHANGED <<streams, now, tpc, tloc>>
     /\ IF fh \notin DOMAIN openfh
          \* self.openfh[fh] raises KeyError
          THEN /\ okFlush /\ okCommit
               /\ result' = Ret("release", path, fh, "EXC",
                                ReleaseVal(NoF, << >>, FALSE, FALSE, FALSE))
               /\ UNCHANGED <<cache, openfh, runfh, remote, sessions, accepted>>
          ELSE
            LET h == openfh[fh]
                f == h.f
                flush == HasSession(f) /\ f.buf # << >>
                sess1 == IF flush /\ okFlush
                           THEN dbxChunkedUpload(sessions, f.buf, f.upload_id,
                                                 f.offset).sessions
                           ELSE sessions
                issued == HasSession(f) /\ (flush => okFlush)
                raised == HasSession(f) /\ ~(issued /\ okCommit)
            IN /\ ~flush => okFlush
               /\ ~issued => okCommit
               /\ sessions' = sess1
               /\ IF raised
                    THEN /\ result' = Ret("release", path, fh, "EXC",
                                          ReleaseVal(f, accepted[fh], flush /\ okFlush,
                                                     issued, FALSE))
                         /\ UNCHANGED <<cache, openfh, runfh, remote, accepted>>
                    ELSE /\ result' = Ret("release", path, fh, "",
                                          ReleaseVal(f, accepted[fh], flush, issued, issued))
                         /\ remote' = IF issued
                                        THEN dbxCommitChunkedUpload(remote, sess1, path,
                                                                    f.upload_id,
                                                                    CommitOffset(f))
                                        ELSE remote
                         /\ cache' = IF h.mode = "w"
                                       THEN removeFromCache(cache, Dirname(path))
                                       ELSE cache
                         /\ openfh' = releaseFH(openfh, fh)
                         /\ runfh' = releaseFH(runfh, fh)
                         /\ accepted' = Without(accepted, {fh})

\* ------------------------------------------------------- getattr / readdir
\* what getattr answers for the item the lookup gave it: ENOENT for False,
\* the properties of a folder or of a file
GetattrResult(path, item) ==
  IF item = False THEN Ret("getattr", path, 0, "ENOENT", 0)
  ELSE IF item.hasEntries \/ item.tag = "folder"
    THEN Ret("getattr", path, 0, "", [kind |-> "folder", st_size |-> 0])
    ELSE Ret("getattr", path, 0, "", [kind |-> "file", st_size |-> item.size])

\* getattr(path): the remote lookup, if one is made, answers iff ok
Getattr(path, ok) ==
  LET r == getDropboxMetadata(cache, remote, path, FALSE, ok, now)
      item == r.item
  IN /\ cache' = r.cache
     /\ result' = GetattrResult(path, item)
     /\ UNCHANGED <<openfh, runfh, remote, sessions, streams, now, fds, accepted,
                    tpc, tloc>>

\* readdir(path, fh): the names after '.' and '..', as paths
Readdir(path, ok) ==
  LET r == getDropboxMetadata(cache, remote, path, TRUE, ok, now)
      metadata == r.item
  IN /\ cache' = r.cache
     /\ result' =
          \* metadata['entries'] raises when metadata is False or has no entries
          IF metadata = False \/ ~metadata.hasEntries
            THEN Ret("readdir", path, 0, "EXC", << >>)
            ELSE Ret("readdir", path, 0, "", metadata.entries)
     /\ UNCHANGED <<openfh, runfh, remote, sessions, streams, now, fds, accepted,
                    tpc, tloc>>

\* ------------------------------------------ mkdir / rmdir / unlink / rename
\* the folders mkdir and rmdir are called on
FolderPaths == {"/a", "/b"}

\* files_create_folder(path) succeeds
CanCreateFolder(rem, path, ok) == ok /\ rem[path].kind = "none"

\* files_delete(path) succeeds
CanDelete(rem, path, ok) == ok /\ rem[path].kind # "none"

\* files_delete(path): the path and everything below it are gone
RemoteDelete(rem, path) ==
  [q \in Paths |-> IF q = path \/ (q # "/" /\ Dirname(q) = path) THEN NoObject ELSE rem[q]]

\* mkdir(path, mode)
Mkdir(path, ok) ==
  /\ IF CanCreateFolder(remote, path, ok)
       THEN /\ remote' = [remote EXCEPT ![path] = FolderObject]
            /\ cache' = removeFromCache(cache, Dirname(path))
            /\ result' = Ret("mkdir", path, 0, "", 0)
       ELSE /\ result' = Ret("mkdir", path, 0, "EIO", 0)
            /\ UNCHANGED <<remote, cache>>
  /\ UNCHANGED <<openfh, runfh, sessions, streams, now, fds, accepted, tpc, tloc>>

\* rmdir(path)
Rmdir(path, ok) ==
  /\ IF CanDelete(remote, path, ok)
       THEN /\ remote' = RemoteDelete(remote, path)
            /\ cache' = removeFromCache(removeFromCache(cache, path), Dirname(path))
            /\ result' = Ret("rmdir", path, 0, "", 0)
       ELSE /\ result' = Ret("rmdir", path, 0, "EIO", 0)
            /\ UNCHANGED <<remote, cache>>
  /\ UNCHANGED <<openfh, runfh, sessions, streams, now, fds, accepted, tpc, tloc>>

\* unlink(path): the cache entry is removed before the remote call
Unlink(path, ok) ==
  /\ cache' = removeFromCache(cache, path)
  /\ IF CanDelete(remote, path, ok)
       THEN /\ remote' = RemoteDelete(remote, path)
            /\ result' = Ret("unlink", path, 0, "", 0)
       ELSE /\ result' = Ret("unlink", path, 0, "EIO", 0)
            /\ UNCHANGED remote
  /\ UNCHANGED <<openfh, runfh, sessions, streams, now, fds, accepted, tpc, tloc>>

\* files_move(old, new) succeeds
CanMove(rem, old, new, ok) ==
  ok /\ rem[old].kind # "none" /\ rem[new].kind = "none"

\* rename(old, new): old.encode('utf-8') is the key removeFromCache is given;
\* keyHit says whether the encoded key equals the cache's key for old (it
\* does for a byte-string path; an encoded text path is a different key)
Rename(old, new, ok, keyHit) ==
  /\ IF CanMove(remote, old, new, ok)
       THEN /\ remote' = [remote EXCEPT ![new] = remote[old], ![old] = NoObject]
            /\ cache' = IF keyHit THEN removeFromCache(cache, old) ELSE cache
            /\ result' = Ret("rename", old, 0, "", 0)
       ELSE /\ keyHit
            /\ result' = Ret("rename", old, 0, "EIO", 0)
            /\ UNCHANGED <<remote, cache>>
  /\ UNCHANGED <<openfh, runfh, sessions, streams, now, fds, accepted, tpc, tloc>>

\* the clock advances
Tick ==
  /\ now < MaxTime
  /\ now' = now + 1
  /\ UNCHANGED <<cache, openfh, runfh, remote, sessions, streams, result, fds,
                 accepted, tpc, tloc>>

\* ------------------------------------------- open/create by request threads
\* open() and create() as request threads run them, one bytecode-level step
\* of getFH at a time: the membership test and the store are separate steps,
\* and nothing keeps another thread from running between them.

\* a thread enters open(path, flags) (mode "r") or create(path, mode) (mode
\* "w") and starts getFH's loop
TStart(t, path, mode) ==
  /\ tpc[t] = "idle"
  \* requests start while the kernel holds fewer than MaxFH descriptors
  /\ Len(fds) < MaxFH
  /\ tpc' = [tpc EXCEPT ![t] = "test"]
  /\ tloc' = [tloc EXCEPT ![t] = [i |-> 1, mode |-> mode, path |-> path]]
  /\ UNCHANGED <<cache, openfh, runfh, remote, sessions, streams, now, result,
                 fds, accepted>>

\* for i in range(1,8193): if i not in self.openfh
TTest(t) ==
  /\ tpc[t] = "test"
  /\ LET i == tloc[t].i
     IN IF i > MaxFH
          THEN /\ tpc' = [tpc EXCEPT ![t] = "ret"]
               /\ tloc' = [tloc EXCEPT ![t].i = 0]
          ELSE IF i \notin DOMAIN openfh
            THEN /\ tpc' = [tpc EXCEPT ![t] = "store"]
                 /\ UNCHANGED tloc
            ELSE /\ tloc' = [tloc EXCEPT ![t].i = i + 1]
                 /\ UNCHANGED tpc
  /\ UNCHANGED <<cache, openfh, runfh, remote, sessions, streams, now, result,
                 fds, accepted>>

\* self.openfh[i] = {...}; self.runfh[i] = False; return i
TStore(t) ==
  /\ tpc[t] = "store"
  /\ LET i == tloc[t].i
     IN /\ openfh' = With(openfh, i, NewHandle(tloc[t].mode))
        /\ runfh' = With(runfh, i, FALSE)
        /\ accepted' = With(accepted, i, << >>)
  /\ tpc' = [tpc EXCEPT ![t] = "ret"]
  /\ UNCHANGED <<cache, remote, sessions, streams, now, result, fds, tloc>>

\* the rest of open()/create(): create() stores the placeholder; fh is
\* returned to the kernel
TReturn(t) ==
  /\ tpc[t] = "ret"
  /\ LET fh == tloc[t].i
         path == tloc[t].path
         mode == tloc[t].mode
     IN /\ result' = Ret(IF mode = "w" THEN "create" ELSE "open", path, fh, "", fh)
        /\ cache' = IF mode = "w" THEN With(cache, path, FileItem(0, NoTs)) ELSE cache
        /\ fds' = IF fh # 0 THEN Append(fds, [fh |-> fh, path |-> path]) ELSE fds
  /\ tpc' = [tpc EXCEPT ![t] = "idle"]
  /\ UNCHANGED <<openfh, runfh, remote, sessions, streams, now, accepted, tloc>>

\* ----------------------------------------------------- read by request threads
\* read() as request threads run it, one statement at a time: the wait on the
\* handle's 'lock', the opening of the stream, the read from it, and the
\* stores before the return.  'lock' is only ever stored as False (getFH,
\* read), so the wait never holds a thread back.

\* where a thread is inside read()
InRead == {"rd_open", "rd_read", "rd_ret"}

\* while self.openfh[fh]['lock']: pass; self.runfh[fh] = True
TReadEnter(t, k, length, offset) ==
  LET fh == fds[k].fh
  IN /\ tpc[t] = "idle"
     /\ fh \in DOMAIN openfh
     /\ ~openfh[fh].lock
     /\ runfh' = [runfh EXCEPT ![fh] = TRUE]
     /\ tpc' = [tpc EXCEPT ![t] = "rd_open"]
     /\ tloc' = [tloc EXCEPT ![t] = [i |-> fh, mode |-> "r", path |-> fds[k].path,
                                     length |-> length, offset |-> offset,
                                     rbytes |-> << >>]]
     /\ UNCHANGED <<cache, openfh, remote, sessions, streams, now, result, fds,
                    accepted>>

\* if not f, or eoffset != offset: f = self.dbxFilehandle(path, offset); the
\* download succeeds iff ok
TReadOpen(t, ok) ==
  LET fh == tloc[t].i
      path == tloc[t].path
      h == openfh[fh]
  IN /\ tpc[t] = "rd_open"
     /\ IF NeedOpen(h, tloc[t].offset)
          THEN /\ streams < MaxStreams
               /\ IF CanDownload(remote, path, ok)
                    THEN /\ openfh' = [openfh EXCEPT ![fh].f =
                                         dbxFilehandle(remote, path, tloc[t].offset,
                                                       streams + 1)]
                         /\ streams' = streams + 1
                         /\ tpc' = [tpc EXCEPT ![t] = "rd_read"]
                         /\ UNCHANGED result
                    ELSE /\ result' = Ret("read", path, fh,
                                          IF h.f.kind = "none" THEN "EIO" ELSE "EXC",
                                          << >>)
                         /\ tpc' = [tpc EXCEPT ![t] = "idle"]
                         /\ UNCHANGED <<openfh, streams>>
          ELSE /\ ok
               /\ tpc' = [tpc EXCEPT ![t] = "rd_read"]
               /\ UNCHANGED <<openfh, streams, result>>
     /\ UNCHANGED <<cache, runfh, remote, sessions, now, fds, accepted, tloc>>

\* rbytes = self.openfh[fh]['f'].read(length), from whatever stream the
\* handle holds now; the read succeeds iff ok
TReadRead(t, ok) ==
  LET fh == tloc[t].i
      f == openfh[fh].f
      n == StreamRead(f, tloc[t].length)
  IN /\ tpc[t] = "rd_read"
     /\ IF ok /\ f.kind = "stream"
          THEN /\ openfh' = [openfh EXCEPT ![fh].f.pos = f.pos + n]
               /\ tloc' = [tloc EXCEPT ![t].rbytes = [i \in 1..n |-> f.pos + i - 1]]
               /\ tpc' = [tpc EXCEPT ![t] = "rd_ret"]
               /\ UNCHANGED result
          ELSE /\ f.kind # "stream" => ok
               /\ result' = Ret("read", tloc[t].path, fh, "EIO", << >>)
               /\ tpc' = [tpc EXCEPT ![t] = "idle"]
               /\ UNCHANGED <<openfh, tloc>>
     /\ UNCHANGED <<cache, runfh, remote, sessions, streams, now, fds, accepted>>

\* lock = False; runfh[fh] = False; eoffset = offset + len(rbytes); return
TReadReturn(t) ==
  LET fh == tloc[t].i
  IN /\ tpc[t] = "rd_ret"
     /\ openfh' = [openfh EXCEPT ![fh].lock = FALSE,
                                 ![fh].eoffset = NextOffset(tloc[t].offset,
                                                            Len(tloc[t].rbytes))]
     /\ runfh' = [runfh EXCEPT ![fh] = FALSE]
     /\ result' = Ret("read", tloc[t].path, fh, "",
                      [rbytes |-> tloc[t].rbytes, offset |-> tloc[t].offset,
                       length |-> tloc[t].length])
     /\ tpc' = [tpc EXCEPT ![t] = "idle"]
     /\ UNCHANGED <<cache, remote, sessions, streams, now, fds, accepted, tloc>>

\* ------------------------------------------------------- the specifications
\* the offsets write() is called with: the kernel writes a file front to back
WriteOffsets(fh) == {SumLen(accepted[fh])}

OpenStep == \E p \in FilePaths, append \in BOOLEAN : Open(p, append)

CreateStep == \E p \in FilePaths : Create(p)

WriteStep ==
  \E k \in 1..Len(fds), n \in WriteLens, ok \in BOOLEAN :
    \E offset \in WriteOffsets(fds[k].fh) : Write(k, n, offset, ok)

ReadStep ==
  \E k \in 1..Len(fds), length \in ReadLens, offset \in 0..MaxOff,
     okOpen \in BOOLEAN, okRead \in BOOLEAN :
    Read(k, length, offset, okOpen, okRead)

ReleaseStep ==
  \E k \in 1..Len(fds), okFlush \in BOOLEAN, okCommit \in BOOLEAN :
    Release(k, okFlush, okCommit)

GetattrStep == \E p \in Paths, ok \in BOOLEAN : Getattr(p, ok)

ReaddirStep == \E p \in Paths, ok \in BOOLEAN : Readdir(p, ok)

MkdirStep == \E p \in FolderPaths, ok \in BOOLEAN : Mkdir(p, ok)

RmdirStep == \E p \in FolderPaths, ok \in BOOLEAN : Rmdir(p, ok)

UnlinkStep == \E p \in FilePaths, ok \in BOOLEAN : Unlink(p, ok)

RenameStep ==
  \E old \in FilePaths, new \in FilePaths, ok \in BOOLEAN, keyHit \in BOOLEAN :
    old # new /\ Rename(old, new, ok, keyHit)

\* The whole filesystem, its operations called one at a time.
Next ==
  \/ OpenStep
  \/ CreateStep
  \/ WriteStep
  \/ ReadStep
  \/ ReleaseStep
  \/ GetattrStep
  \/ ReaddirStep
  \/ MkdirStep
  \/ RmdirStep
  \/ UnlinkStep
  \/ RenameStep
  \/ Tick

Spec == Init /\ [][Next]_vars

\* The handle table: descriptors are opened, created and released.
NextTable ==
  \/ OpenStep
  \/ CreateStep
  \/ ReleaseStep

SpecTable == Init /\ [][NextTable]_vars

\* Downloads: files are opened, read and released, at most MaxReaders
\* descriptors at a time.
ReadOpen == Len(fds) < MaxReaders /\ OpenStep

NextRead ==
  \/ ReadOpen
  \/ ReadStep
  \/ ReleaseStep

SpecRead == Init /\ [][NextRead]_vars

\* Uploads: files are created, written and released.
NextWrite ==
  \/ CreateStep
  \/ WriteStep
  \/ ReleaseStep

SpecWrite == Init /\ [][NextWrite]_vars

\* One writer and the attributes it then sees: a file is created, written
\* and released, one descriptor at a time, and the file and its folder are
\* looked up.
FileCreate == Len(fds) = 0 /\ CreateStep

FileGetattr == \E p \in FilePaths, ok \in BOOLEAN : Getattr(p, ok)

FileReaddir == \E ok \in BOOLEAN : Readdir("/a", ok)

NextFile ==
  \/ FileCreate
  \/ WriteStep
  \/ ReleaseStep
  \/ FileGetattr
  \/ FileReaddir

SpecFile == Init /\ [][NextFile]_vars

\* The namespace and the metadata cache: lookups, listings and the
\* operations that change the tree, as the clock runs.
NextCache ==
  \/ GetattrStep
  \/ ReaddirStep
  \/ MkdirStep
  \/ RmdirStep
  \/ UnlinkStep
  \/ RenameStep
  \/ Tick

SpecCache == Init /\ [][NextCache]_vars

\* Request threads opening and creating concurrently (the FUSE loop is
\* started multi-threaded), descriptors being released meanwhile.
ThreadStart == \E t \in Threads, p \in FilePaths, mode \in {"r", "w"} : TStart(t, p, mode)

ThreadTest == \E t \in Threads : TTest(t)

ThreadStore == \E t \in Threads : TStore(t)

ThreadReturn == \E t \in Threads : TReturn(t)

ThreadRelease == \E k \in 1..Len(fds) : Release(k, TRUE, TRUE)

NextThreads ==
  \/ ThreadStart
  \/ ThreadTest
  \/ ThreadStore
  \/ ThreadReturn
  \/ ThreadRelease

SpecThreads == Init /\ [][NextThreads]_vars

\* Buffering: a file is created and written, at the offsets a caller that
\* seeks can ask for: the start of the file again, the offset that continues
\* the file, or an offset further on that leaves a hole.
SeekOffsets(fh) == {0, SumLen(accepted[fh]), SumLen(accepted[fh]) + MinChunk}

\* the lengths written there: those of WriteLens and a second short one
BufferLens == WriteLens \cup {5}

WriteAtStep ==
  \E k \in 1..Len(fds), n \in BufferLens, ok \in BOOLEAN :
    \E offset \in SeekOffsets(fds[k].fh) : Write(k, n, offset, ok)

NextBuffer ==
  \/ FileCreate
  \/ WriteAtStep

SpecBuffer == Init /\ [][NextBuffer]_vars

\* Request threads reading concurrently from the descriptors that are open.
\* the offsets concurrent reads ask for: the start of the file, or further on
ThreadOffsets == {0, 2}

ThreadReadEnter ==
  \E t \in Threads, k \in 1..Len(fds), length \in ReadLens, offset \in ThreadOffsets :
    TReadEnter(t, k, length, offset)

ThreadReadOpen == \E t \in Threads, ok \in BOOLEAN : TReadOpen(t, ok)

ThreadReadRead == \E t \in Threads, ok \in BOOLEAN : TReadRead(t, ok)

ThreadReadReturn == \E t \in Threads : TReadReturn(t)

NextReaders ==
  \/ ReadOpen
  \/ ThreadReadEnter
  \/ ThreadReadOpen
  \/ ThreadReadRead
  \/ ThreadReadReturn

SpecReaders == Init /\ [][NextReaders]_vars

\* ================================================================== claims

\* the upload states of a handle's f
Buffering(f) == f.kind = "upload" /\ f.upload_id = EmptyId /\ f.buf # << >>

SessionOpen(f) == f.kind = "upload" /\ f.upload_id # EmptyId

\* C1: when a handle is released in Buffering (bytes accepted, no session
\* started) and release returns, the file at the path holds exactly the
\* bytes the write calls accepted.
C1_BufferedBytesCommitted ==
  (result.op = "release" /\ result.err = "" /\ Buffering(result.val.before))
    => /\ remote[result.path].kind = "file"
       /\ remote[result.path].data = result.val.accepted

\* C2: when release flushes a nonempty buffer of a handle in SessionOpen and
\* then issues the commit, the commit's cursor offset is the offset before
\* the flush plus the flushed length, which is the number of bytes accepted.
C2_CommitOffsetIsTotal ==
  (/\ result.op = "release"
   /\ SessionOpen(result.val.before)
   /\ result.val.before.buf # << >>
   /\ result.val.commitIssued)
    => /\ result.val.commitOffset
            = result.val.before.offset + SumLen(result.val.before.buf)
       /\ result.val.commitOffset = SumLen(result.val.accepted)

\* C3: a getattr of P that directly follows a successful release of a handle
\* created on P, whose N accepted bytes were committed, reports size N.
C3_WriterSeesOwnWrite ==
  [][(/\ result.op = "release" /\ result.err = "" /\ result.val.committed
      /\ result'.op = "getattr" /\ result'.path = result.path)
       => /\ result'.err = ""
          /\ result'.val.kind = "file"
          /\ result'.val.st_size = SumLen(result.val.accepted)]_vars

\* C4: a read that opens a stream returns the bytes of the file that start
\* at the requested offset, at most length of them.
C4_ReadAtOffset ==
  [][(result'.op = "read" /\ result'.err = "" /\ streams' # streams)
       => /\ Len(result'.val.rbytes) <= result'.val.length
          /\ result'.val.rbytes
               = [i \in 1..Len(result'.val.rbytes) |-> result'.val.offset + i - 1]]_vars

\* C5: a successful read on a handle that has a stream keeps that stream and
\* opens none when its offset is the expected one, and replaces it by a
\* newly opened one when it is not; every successful read leaves offset +
\* bytes returned as the expected offset.
C5_ReadContinuesOrReopens ==
  [][\A fh \in DOMAIN openfh :
       (result'.op = "read" /\ result'.fh = fh /\ result'.err = "")
         => /\ openfh[fh].f.kind = "stream"
                 => IF openfh[fh].eoffset = result'.val.offset
                      THEN /\ openfh'[fh].f.sid = openfh[fh].f.sid
                           /\ streams' = streams
                      ELSE /\ openfh'[fh].f.sid = streams'
                           /\ streams' = streams + 1
            /\ openfh'[fh].eoffset
                 = result'.val.offset + Len(result'.val.rbytes)]_vars

\* C5 witness: the second of two reads, at the offset the first one ended
\* at, was served by the one stream ever opened.
C5_Witness ==
  /\ result.op = "read" /\ result.err = ""
  /\ result.val.offset = 2 /\ result.val.rbytes = <<2, 3>>
  /\ streams = 1

\* no id is held by two descriptors
DistinctIds == \A i, j \in 1..Len(fds) : i # j => fds[i].fh # fds[j].fh

\* C6: operations called one at a time: an open or create that finds a free
\* id returns the smallest id not in the table and puts it into the table,
\* no two descriptors hold the same id, and a release takes the id out of
\* the table.
C6_SmallestFreeId ==
  /\ []DistinctIds
  /\ [][LET free == (1..MaxFH) \ DOMAIN openfh
        IN (result'.op \in {"open", "create"} /\ result'.err = "" /\ free # {})
             => /\ result'.val \in free
                /\ \A j \in free : result'.val <= j
                /\ DOMAIN openfh' = DOMAIN openfh \cup {result'.val}]_vars
  /\ [][(result'.op = "release" /\ result'.err = "")
          => result'.fh \notin DOMAIN openfh']_vars

\* C6 witness: id 1 was released and handed out again while id 2 was held.
C6_Witness ==
  /\ Len(fds) = 2
  /\ fds[1].fh = 2
  /\ fds[2].fh = 1

\* C7: with request threads running open and create concurrently, no two
\* descriptors hold the same handle id.
C7_NoSharedId ==
  \A i \in 1..Len(fds) : \A j \in 1..Len(fds) : i # j => fds[i].fh # fds[j].fh

\* C8: an open or create that returns without an error returns the id of a
\* handle in the table; with no id free it signals an error instead.
C8_ExhaustedIsAnError ==
  (result.op \in {"open", "create"} /\ result.err = "")
    => result.val \in DOMAIN openfh

\* C9: after release, whether it returned or raised, the id is not in the
\* handle table.
C9_ReleaseDeallocates ==
  result.op = "release" => result.fh \notin DOMAIN openfh

\* C10: mkdir, rmdir, unlink or rename whose remote call fails signals EIO
\* and leaves the cache as it was.
C10_FailureKeepsCache ==
  [][(result'.op \in {"mkdir", "rmdir", "unlink", "rename"} /\ result'.err # "")
       => /\ result'.err = "EIO"
          /\ cache' = cache]_vars

\* C11: the getattr(P) that directly follows a successful unlink(P) raises
\* ENOENT, whatever the cache held for P and for P's folder before the unlink.
C11_DeletedIsNotFound ==
  [][(result.op = "unlink" /\ result.err = ""
      /\ result'.op = "getattr" /\ result'.path = result.path)
     => result'.err = "ENOENT"]_vars

\* /a/f was looked up from the cache, unlinked, and looked up again
C11_Witness ==
  /\ result.op = "getattr" /\ result.path = "/a/f" /\ result.err = "ENOENT"
  /\ remote["/a/f"].kind = "none" /\ remote["/a/g"].kind = "none"
  /\ remote["/a"].kind = "folder"
  /\ "/a/g" \notin DOMAIN cache /\ "/a" \notin DOMAIN cache

\* C12: a readdir of P's folder that directly follows a successful mkdir(P)
\* and returns a listing has P in it, whether or not the folder's listing was
\* cached and unexpired before the mkdir.
C12_CreatedIsListed ==
  [][(result.op = "mkdir" /\ result.err = ""
      /\ result'.op = "readdir" /\ result'.path = Dirname(result.path)
      /\ result'.err = "")
     => result.path \in Range(result'.val)]_vars

\* /b was created and the root then listed with it
C12_Witness ==
  /\ result.op = "readdir" /\ result.path = "/" /\ result.err = ""
  /\ result.val = <<"/a", "/b">>
  /\ remote["/b"].kind = "folder"

\* C13: when rmdir(F) succeeds on a folder F whose listing is cached, the
\* removeFromCache(F) it runs leaves neither F nor any child of that listing
\* in the cache.
C13_InvalidateRemovesChildren ==
  [][\A F \in FolderPaths :
       (result'.op = "rmdir" /\ result'.err = "" /\ result'.path = F
        /\ F \in DOMAIN cache /\ cache[F].hasEntries)
         => /\ F \notin DOMAIN cache'
            /\ \A q \in Range(cache[F].entries) : q \notin DOMAIN cache']_vars

\* an item whose 'cachets', if it has one, has not passed at time t
Fresh(item, t) == item.cachets = NoTs \/ item.cachets >= t

\* path X lies below path P
Below(X, P) == X # P /\ (Dirname(X) = P \/ Dirname(Dirname(X)) = P)

\* the step is an operation on another path than P that does not call
\* removeFromCache(P) (mkdir and rmdir call it for the folder of their path)
OnOtherPath(P) ==
  /\ result'.path # P
  /\ ~(result'.op \in {"mkdir", "rmdir"} /\ Dirname(result'.path) = P)

\* the step looks up, and so may list, the folder of P
ListsFolderOf(P) ==
  result'.op \in {"getattr", "readdir"} /\ result'.path = Dirname(P)

\* getattr(P) on a cached, unexpired P answers from the entry and leaves the
\* cache alone
LookupServes(P) ==
  (result'.op = "getattr" /\ result'.path = P)
    => /\ cache' = cache
       /\ result' = GetattrResult(P, cache[P])

C15_StaleServedOnFailure ==
  [][\A P \in DOMAIN cache :
       (/\ result'.op = "getattr" /\ result'.path = P /\ now' = now
        /\ AsksRemote(cache[P], FALSE, now)
        /\ remote[P].kind = "folder"
        /\ cache' = cache)
         => result' = GetattrResult(P, cache[P])]_vars

\* an item whose 'cachets' has passed at time t
Expired(item, t) == item.cachets # NoTs /\ item.cachets < t

\* C16: a getattr(P) that finds a cached entry whose 'cachets' has passed asks
\* the remote store, whether the entry is a file's or a folder's.
C16_ExpiredIsRefreshed ==
  [][\A P \in DOMAIN cache :
       (/\ result'.op = "getattr" /\ result'.path = P /\ now' = now
        /\ Expired(cache[P], now))
         => AsksRemote(cache[P], FALSE, now)]_vars

\* C17: every write that was accepted on a handle was at the offset equal to
\* the number of bytes accepted on that handle before it; a write at any
\* other offset is rejected and changes nothing.
C17_OnlyContiguousAccepted ==
  \A fh \in DOMAIN accepted :
    \A i \in 1..Len(accepted[fh]) :
      accepted[fh][i][1] = SumLen(SubSeq(accepted[fh], 1, i - 1))

\* C18: a write of N bytes accepted on a handle whose buffer holds B bytes
\* sends the B+N bytes in one upload call (a new session when the handle has
\* none, an append to its session otherwise) and empties the buffer iff
\* B+N >= write_cache or N < 4096; otherwise it calls nothing and the buffer
\* holds the B+N bytes.  A first write of N >= write_cache bytes opens a
\* session at offset N.
C18_FlushPolicy ==
  [][\A fh \in DOMAIN openfh :
       (/\ result'.op = "write" /\ result'.fh = fh /\ result'.err = ""
        /\ fh \in DOMAIN accepted' /\ accepted'[fh] # accepted[fh])
         => LET f == openfh[fh].f
                g == openfh'[fh].f
                N == result'.val
                B == SumLen(f.buf)
                data == f.buf \o <<accepted'[fh][Len(accepted'[fh])]>>
            IN IF B + N >= write_cache \/ N < MinChunk
                 THEN /\ IF SessionOpen(f)
                           THEN /\ g.upload_id = f.upload_id
                                /\ sessions' = [sessions EXCEPT ![f.upload_id] = @ \o data]
                           ELSE /\ g.upload_id = Len(sessions) + 1
                                /\ sessions' = Append(sessions, data)
                      /\ g.buf = << >>
                      /\ g.offset = f.offset + B + N
                 ELSE /\ sessions' = sessions
                      /\ g.buf = data
                      /\ g.upload_id = f.upload_id
                      /\ g.offset = f.offset]_vars

\* 4096 bytes were buffered and a write of write_cache bytes then sent both
\* in one call that opened the session
C18_Witness ==
  /\ result.op = "write" /\ result.err = "" /\ result.val = write_cache
  /\ result.fh \in DOMAIN openfh
  /\ openfh[result.fh].f.upload_id # EmptyId
  /\ openfh[result.fh].f.buf = << >>
  /\ openfh[result.fh].f.offset = MinChunk + write_cache
  /\ sessions[openfh[result.fh].f.upload_id] = << <<0, MinChunk>>, <<MinChunk, write_cache>> >>

\* C19: the bytes buffered on a handle never exceed write_cache.
C19_BufferBounded ==
  \A fh \in DOMAIN openfh : SumLen(openfh[fh].f.buf) <= write_cache

\* two writes of 4096 bytes were buffered
C19_Witness ==
  /\ result.op = "write" /\ result.err = ""
  /\ result.fh \in DOMAIN openfh
  /\ SumLen(openfh[result.fh].f.buf) = 2 * MinChunk

\* C20: calls on one handle are serialized: no two request threads are inside
\* read() on the same handle id at the same time.
C20_OneCallPerHandle ==
  \A t1 \in Threads : \A t2 \in Threads :
    (t1 # t2 /\ tpc[t1] \in InRead /\ tpc[t2] \in InRead)
      => tloc[t1].i # tloc[t2].i

\* C21: create(P) stores a zero-size file entry for P in the cache, and a
\* readdir of P's folder that directly follows the create (before any write)
\* and returns a listing has P in it.
C21_CreatedIsListedAtOnce ==
  [][/\ (result'.op = "create" /\ Len(fds') > Len(fds))
          => (result'.path \in DOMAIN cache'
              /\ cache'[result'.path] = FileItem(0, NoTs))
     /\ (result.op = "create" /\ result'.op = "readdir"
         /\ result'.path = Dirname(result.path) /\ result'.err = "")
          => result.path \in Range(result'.val)]_vars

\* the two writes of the scenario: 10 bytes at offset 0, 5 bytes at offset 10
TwoShortWrites == << <<0, 10>>, <<10, 5>> >>

\* C22 as stated: after create, write(10 bytes, 0) and write(5 bytes, 10) the
\* handle is buffering: it holds both writes in its buffer and has no upload
\* session.
C22_ShortWritesBuffered ==
  \A fh \in DOMAIN accepted :
    accepted[fh] = TwoShortWrites
      => (Buffering(openfh[fh].f) /\ openfh[fh].f.buf = TwoShortWrites)

\* C22 amended: after create, write(10 bytes, 0) and write(5 bytes, 10) the
\* handle has an upload session that holds the 15 bytes, at offset 15, and
\* an empty buffer: each write is shorter than 4096 bytes and is sent at once.
C22_ShortWritesSent ==
  \A fh \in DOMAIN accepted :
    accepted[fh] = TwoShortWrites
      => LET f == openfh[fh].f
         IN /\ SessionOpen(f)
            /\ f.buf = << >>
            /\ f.offset = 15
            /\ sessions[f.upload_id] = TwoShortWrites

\* the two writes have been made on a handle
C22_Witness ==
  /\ result.op = "write" /\ result.err = "" /\ result.val = 5
  /\ result.fh \in DOMAIN accepted
  /\ accepted[result.fh] = TwoShortWrites

\* C23: a write that is not accepted (its upload call failed) returns EIO and
\* leaves the handle's upload state, and the handle table, exactly as they
\* were.
C23_FailedWriteKeepsState ==
  [][\A fh \in DOMAIN openfh :
       (/\ result'.op = "write" /\ result'.fh = fh
        /\ result' # result
        /\ accepted' = accepted)
         => /\ result'.err = "EIO"
            /\ fh \in DOMAIN openfh'
            /\ openfh'[fh].f = openfh[fh].f
            /\ openfh' = openfh]_vars

\* 4096 bytes were buffered and the next write's upload call failed: the
\* buffer still holds the 4096 bytes
C23_Witness ==
  /\ result.op = "write" /\ result.err = "EIO"
  /\ result.fh \in DOMAIN openfh
  /\ Buffering(openfh[result.fh].f)
  /\ openfh[result.fh].f.buf = << <<0, MinChunk>> >>
  /\ accepted[result.fh] = << <<0, MinChunk>> >>

\* C24: an unlink(P) of a cached file P, whose removeFromCache(P) is the only
\* change to the cache, removes P and, when the listing of P's folder is
\* cached, that folder's entry; every other entry is left as it was.
C24_InvalidateFrame ==
  [][\A P \in DOMAIN cache :
       (result'.op = "unlink" /\ result'.path = P /\ ~cache[P].hasEntries
        /\ cache' # cache)
         => LET par == Dirname(P)
                gone == IF par \in DOMAIN cache /\ cache[par].hasEntries
                          THEN {P, par} ELSE {P}
            IN /\ DOMAIN cache' = (DOMAIN cache) \ gone
               /\ \A q \in DOMAIN cache' : cache'[q] = cache[q]]_vars

\* /a/g was unlinked while /a/f and the listing of /a were cached beside
\* it: /a/f is still there
C24_Witness ==
  /\ result.op = "unlink" /\ result.path = "/a/g" /\ result.err = ""
  /\ "/a/f" \in DOMAIN cache
  /\ "/a/g" \notin DOMAIN cache /\ "/a" \notin DOMAIN cache

\* C25: removeFromCache of a path that is not cached changes nothing and
\* returns False; so, on every cache the program reaches and for every path,
\* a second removeFromCache(P) after a first changes nothing more and returns
\* False.
C25_InvalidateIdempotent ==
  \A P \in Paths :
    LET c1 == removeFromCache(cache, P)
    IN /\ P \notin DOMAIN cache
            => (c1 = cache /\ ~removeFromCacheRet(cache, P))
       /\ removeFromCache(c1, P) = c1
       /\ ~removeFromCacheRet(c1, P)

\* /a/g, which is not cached, was unlinked while the listing of its folder
\* and its sibling were cached: both are still there
C25_Witness ==
  /\ result.op = "unlink" /\ result.path = "/a/g"
  /\ "/a/g" \notin DOMAIN cache
  /\ "/a" \in DOMAIN cache /\ cache["/a"].hasEntries
  /\ "/a/f" \in DOMAIN cache

\* C26: whenever a getattr or readdir of a folder fetches its listing into
\* the cache, on a miss as well as on a refresh, every child of the listing
\* is a key of the cache and carries the folder entry's 'cachets'.
C26_ChildrenShareStamp ==
  [][\A X \in Paths :
       (/\ result'.op \in {"getattr", "readdir"} /\ result'.path = X
        /\ cache' # cache
        /\ X \in DOMAIN cache' /\ cache'[X].hasEntries)
         => \A q \in Range(cache'[X].entries) :
              /\ q \in DOMAIN cache'
              /\ cache'[q].cachets = cache'[X].cachets]_vars

\* C27: when a getattr or readdir of a folder refreshes its cached listing
\* from the remote store, no child of the old listing that is absent from
\* the fresh listing is left in the cache.
C27_NoDanglingChild ==
  [][\A X \in DOMAIN cache :
       (/\ result'.op \in {"getattr", "readdir"} /\ result'.path = X
        /\ cache[X].hasEntries
        /\ cache' # cache
        /\ X \in DOMAIN cache' /\ cache'[X].hasEntries)
         => \A q \in Range(cache[X].entries) :
              q \notin Range(cache'[X].entries) => q \notin DOMAIN cache']_vars

====
